---- MODULE Spec2Model ----
(***************************************************************************)
(* A model of subtitles.py: the chat-timestamp mapper, the message         *)
(* wrapper, the sliding window (flat_window), the cue loop of              *)
(* get_output_lines and main.                                              *)
(*                                                                         *)
(* Instants are integers: hundredths of a second since 1900-01-01          *)
(* 00:00:00, the date datetime.strptime gives a time without a date.  A    *)
(* formatted or parsed clock time is a record [h, m, s, c].  A text is a   *)
(* string.  SpecMap, SpecWrap and SpecWindow apply the mapper, the wrapper *)
(* and flat_window to inputs drawn from bounded sets; Spec is a run of     *)
(* main on a bounded transcript.                                           *)
(***************************************************************************)
EXTENDS Integers, Sequences, FiniteSets, TLC

VARIABLES
    \* convert_message_timestamp_to_subtitle_time applied to two timestamps
    mpc, ts1, ts2, out1, out2,
    \* get_messages_from_line applied to one transcript line
    wpc, w_line, w_msgs,
    \* the generator flat_window(fw_seq, fw_n): the index of the next group,
    \* the window, and what it has yielded
    fw_pc, fw_seq, fw_n, fw_i, fw_result, fw_out,
    \* the files: the transcript without its header line, the header
    \* template, the output file and the output file as the run found it
    talkie, base, out_file, out_file_before,
    \* main: where it is, the exception that ended it, and the locals of
    \* get_messages_in_file and get_output_lines
    pc, error, file_lines, total_messages, windows, final_lines,
    \* every call of a cue formatter: which, for which window, how many lines
    calls

mapVars == <<mpc, ts1, ts2, out1, out2>>
wrapVars == <<wpc, w_line, w_msgs>>
fwVars == <<fw_pc, fw_seq, fw_n, fw_i, fw_result, fw_out>>
fileVars == <<talkie, base, out_file, out_file_before>>
progVars == <<pc, error, file_lines, total_messages, windows, final_lines, calls>>
vars == <<mapVars, wrapVars, fwVars, fileVars, progVars>>

----------------------------------------------------------------------------
\* Bounds of the model.

\* Seconds kept on either side of every instant where the mapper changes case.
Slack == 1

\* The most pieces a message text of the wrapper's inputs is made of.
MaxPieces == 2

\* flat_window on its own: the largest window, the most groups, the largest
\* group.
MaxN == 3
MaxGroups == 4
MaxGroupSize == 4

\* The most lines of a transcript.
MaxRecords == 2

----------------------------------------------------------------------------
\* Clock times.

CS == 100
DAY == 8640000

Clock(h, m, s, c) == [h |-> h, m |-> m, s |-> s, c |-> c]

\* The clock time of a second of the day, as the text "HH:MM:SS" names it.
HMS(sec) == Clock(sec \div 3600, (sec \div 60) % 60, sec % 60, 0)

\* datetime.strptime(_, "%H:%M:%S") and (_, "%H:%M:%S.%f"): the instant on
\* 1900-01-01; %f reads the two digits written in the source as hundredths.
convert_to_datetime(d) == ((d.h * 60 + d.m) * 60 + d.s) * CS + d.c

\* datetime.strftime(_, "%H:%M:%S.00"): the date is not printed, the fraction
\* of the second is not printed either, and the text ends in a literal ".00".
strftime(t) ==
    LET sod == (t % DAY) \div CS
    IN  Clock(sod \div 3600, (sod \div 60) % 60, sod % 60, 0)

\* The order of two clock times, as a video player reads them.
ClockValue(d) == ((d.h * 60 + d.m) * 60 + d.s) * CS + d.c
ClockLeq(a, b) == ClockValue(a) <= ClockValue(b)

----------------------------------------------------------------------------
\* The snip list and its absolute form.

CRUMBLES_SNIPS ==
    << <<Clock(0, 5, 20, 0),   Clock(0, 5, 54, 0)>>,
       <<Clock(0, 25, 34, 0),  Clock(0, 25, 39, 90)>>,
       <<Clock(0, 39, 1, 90),  Clock(0, 39, 11, 0)>>,
       <<Clock(0, 39, 6, 0),   Clock(0, 39, 50, 0)>>,
       <<Clock(0, 40, 12, 40), Clock(0, 40, 22, 20)>>,
       <<Clock(0, 40, 32, 40), Clock(0, 41, 43, 70)>>,
       <<Clock(0, 57, 17, 60), Clock(0, 57, 37, 50)>>,
       <<Clock(0, 58, 0, 0),   Clock(0, 58, 19, 90)>>,
       <<Clock(1, 21, 8, 70),  Clock(1, 21, 20, 0)>>,
       <<Clock(1, 21, 15, 0),  Clock(1, 22, 49, 0)>> >>

NSnips == Len(CRUMBLES_SNIPS)

SnipDuration(k) ==
    convert_to_datetime(CRUMBLES_SNIPS[k][2]) - convert_to_datetime(CRUMBLES_SNIPS[k][1])

\* total_snipped after the loop of convert_crumbles_to_absolute has run k times.
RECURSIVE total_snipped(_)
total_snipped(k) ==
    IF k = 0 THEN 0 ELSE total_snipped(k - 1) + SnipDuration(k)

\* The list of (real_snip_begin, real_snip_end, total_snipped before the snip).
convert_crumbles_to_absolute ==
    [k \in 1..NSnips |->
        << convert_to_datetime(CRUMBLES_SNIPS[k][1]) + total_snipped(k - 1),
           convert_to_datetime(CRUMBLES_SNIPS[k][2]) + total_snipped(k - 1),
           total_snipped(k - 1) >>]

\* timedelta(hours=4, minutes=3, seconds=52)
CHAT_OFFSET == ((4 * 60 + 3) * 60 + 52) * CS

\* timestamp_as_date after the subtraction of the chat offset.
Candidate(timestamp) == convert_to_datetime(timestamp) - CHAT_OFFSET

SetMax(S) == CHOOSE x \in S : \A y \in S : y <= x

\* AdjustedInstant with a slip: a candidate inside a snip is moved to the
\* snip's absolute begin, and what was removed before the snip is not
\* subtracted.
AdjustedInstant_NoRemoval(t) ==
    LET absolutes == convert_crumbles_to_absolute
        held_within == SelectSeq(absolutes, LAMBDA a : a[1] <= t /\ t <= a[2])
    IN  IF held_within # <<>>
        THEN held_within[1][1]
        ELSE IF t < absolutes[1][1]
        THEN t
        ELSE IF t > absolutes[NSnips][2]
        THEN t - absolutes[NSnips][3]
        ELSE t - absolutes[SetMax({i \in 1..NSnips : absolutes[i][2] < t}) + 1][3]

\* The instant the mapper formats: the branches of the if/else.
AdjustedInstant(t) ==
    LET absolutes == convert_crumbles_to_absolute
        held_within == SelectSeq(absolutes, LAMBDA a : a[1] <= t /\ t <= a[2])
    IN  IF held_within # <<>>
        THEN held_within[1][1] - held_within[1][3]
        ELSE IF t < absolutes[1][1]
        THEN t
        ELSE IF t > absolutes[NSnips][2]
        THEN t - absolutes[NSnips][3]
        ELSE t - absolutes[SetMax({i \in 1..NSnips : absolutes[i][2] < t}) + 1][3]

convert_message_timestamp_to_subtitle_time(timestamp) ==
    strftime(AdjustedInstant(Candidate(timestamp)))

----------------------------------------------------------------------------
\* Texts.  A text is a string; Len, \o and SubSeq are the only operations
\* used on it.  CLAP stands for the one code point U+1F44F.

MAX_LINE_LENGTH == 37
LINES_ON_SCREEN == 24

CLAP == "@"
SENTINEL == "]]"

Char(s, i) == SubSeq(s, i, i)

\* s[from:], with from counted from 1.
StrFrom(s, from) == SubSeq(s, from, Len(s))

SetMin(S) == CHOOSE x \in S : \A y \in S : x <= y

Occurrences(s, old) ==
    {i \in 1..(Len(s) - Len(old) + 1) : SubSeq(s, i, i + Len(old) - 1) = old}

\* str.replace(old, new): every occurrence, left to right, none overlapping.
RECURSIVE str_replace(_, _, _)
str_replace(s, old, new) ==
    IF Occurrences(s, old) = {} THEN s
    ELSE LET p == SetMin(Occurrences(s, old))
         IN  SubSeq(s, 1, p - 1) \o new
             \o str_replace(StrFrom(s, p + Len(old)), old, new)

\* hex(n)[2:] of a colour component.
HexDigit(d) == SubSeq("0123456789abcdef", d + 1, d + 1)
Hex(n) == IF n < 16 THEN HexDigit(n) ELSE HexDigit(n \div 16) \o HexDigit(n % 16)

rgb_to_ass_tag(r, g, b) == "{\\c&H" \o Hex(b) \o Hex(g) \o Hex(r) \o "&}"

ELECTROLATE == rgb_to_ass_tag(26, 187, 243)
SCUD == rgb_to_ass_tag(241, 196, 15)
MOXIE == rgb_to_ass_tag(255, 226, 227)
MODS == rgb_to_ass_tag(32, 95, 112)
PRISONER == rgb_to_ass_tag(46, 192, 87)
TMH == rgb_to_ass_tag(113, 82, 182)
MINITRUE == rgb_to_ass_tag(43, 139, 76)

\* The colour table, without its one name that is not ASCII.
NAME_COLORS ==
    [a \in {"BattleToad", "bDwS", "CantHandleMyHandle", "Clone", "dasty",
            "Jammho", "KitKat", "Mermaid", "Poopenheimer", "spaghetti squash",
            "Spicy Deluxe", "teratoma jones", "Toner Martini"} |-> ELECTROLATE]
    @@ [a \in {"Chud Droopy", "Lordy"} |-> MODS]
    @@ [a \in {"Crunchyeater", "Gym Slow", "Lamb's Ear", "Quate"} |-> PRISONER]
    @@ [a \in {"duk"} |-> MINITRUE]
    @@ [a \in {"MF"} |-> MOXIE]
    @@ [a \in {"sling"} |-> SCUD]
    @@ [a \in {"tmh"} |-> TMH]

TEXT_WHITE_RESET == "{\\c&HFFFFFF&}"

\* InsaneHack("\\h\\h"): four characters that textwrap counts as two.
SUBSEQUENT_INDENT == "\\h\\h"
InsaneHackLen == 2

----------------------------------------------------------------------------
\* textwrap.wrap(text, width, subsequent_indent=...), for a text without
\* hyphens, tabs or line breaks: its only whitespace is the space.

IsSpace(c) == c = " "

\* chunk.strip() == ''
IsBlank(chunk) == \A i \in 1..Len(chunk) : IsSpace(Char(chunk, i))

\* TextWrapper._split: the maximal runs of spaces and of other characters.
RECURSIVE split_chunks(_)
split_chunks(text) ==
    IF Len(text) = 0 THEN <<>>
    ELSE LET others == {i \in 2..Len(text) :
                           IsSpace(Char(text, i)) # IsSpace(Char(text, 1))}
             cut == IF others = {} THEN Len(text) + 1 ELSE SetMin(others)
         IN  <<SubSeq(text, 1, cut - 1)>> \o split_chunks(StrFrom(text, cut))

RECURSIVE join_chunks(_)
join_chunks(chunks) ==
    IF chunks = <<>> THEN "" ELSE chunks[1] \o join_chunks(Tail(chunks))

RECURSIVE chunks_len(_, _)
chunks_len(chunks, j) ==
    IF j = 0 THEN 0 ELSE chunks_len(chunks, j - 1) + Len(chunks[j])

\* TextWrapper._wrap_chunks: chunks are the chunks not yet placed, lines the
\* lines made so far; one unfolding makes one line.
RECURSIVE wrap_chunks(_, _, _)
wrap_chunks(chunks, lines, total_width) ==
    IF chunks = <<>> THEN lines
    ELSE
    LET indent == IF lines # <<>> THEN SUBSEQUENT_INDENT ELSE ""
        width == total_width - (IF lines # <<>> THEN InsaneHackLen ELSE 0)
        \* a line other than the first does not start with whitespace
        ch == IF IsBlank(chunks[1]) /\ lines # <<>> THEN Tail(chunks) ELSE chunks
        \* the chunks that fit
        \* (a chunk is never empty, so no more than width of them fit)
        fit == SetMax({j \in 0..Len(ch) :
                          j <= width + 1 /\ chunks_len(ch, j) <= width})
        cur_len == chunks_len(ch, fit)
        rest == SubSeq(ch, fit + 1, Len(ch))
        \* _handle_long_word: the next chunk fits on no line and is broken
        too_long == rest # <<>> /\ Len(rest[1]) > width
        space_left == IF width < 1 THEN 1 ELSE width - cur_len
        cur_line == IF too_long
                    THEN Append(SubSeq(ch, 1, fit), SubSeq(rest[1], 1, space_left))
                    ELSE SubSeq(ch, 1, fit)
        rest2 == IF too_long
                 THEN <<StrFrom(rest[1], space_left + 1)>> \o Tail(rest)
                 ELSE rest
        \* a line does not end with whitespace
        kept == IF cur_line # <<>> /\ IsBlank(cur_line[Len(cur_line)])
                THEN SubSeq(cur_line, 1, Len(cur_line) - 1)
                ELSE cur_line
        lines2 == IF kept # <<>>
                  THEN Append(lines, indent \o join_chunks(kept))
                  ELSE lines
    IN  wrap_chunks(rest2, lines2, total_width)

textwrap_wrap(text, width) == wrap_chunks(split_chunks(text), <<>>, width)

----------------------------------------------------------------------------
\* A transcript line is its fields: [author |-> the name before "#",
\* timestamp |-> a clock time, quoted_text |-> the text between the quotes].

Message(sent_time, text) == [sent_time |-> sent_time, text |-> text]

\* The wrapped lines of a record, before the first is coloured.
WrappedLines(author, quoted_text) ==
    LET text == str_replace(author \o ": " \o quoted_text, "\"\"", "\"")
        insane_hack_text == str_replace(text, CLAP, SENTINEL)
        wrapped == textwrap_wrap(insane_hack_text, MAX_LINE_LENGTH)
    IN  [k \in 1..Len(wrapped) |-> str_replace(wrapped[k], SENTINEL, CLAP)]

\* get_messages_from_line, for an author of the colour table.
get_messages_from_line(line) ==
    LET sent_time == convert_message_timestamp_to_subtitle_time(line.timestamp)
        author == line.author
        contents == WrappedLines(author, line.quoted_text)
        first == str_replace(contents[1], author \o ": ",
                     NAME_COLORS[author] \o author \o ": " \o TEXT_WHITE_RESET)
    IN  [k \in 1..Len(contents) |->
            Message(sent_time, IF k = 1 THEN first ELSE contents[k])]

----------------------------------------------------------------------------
\* The raw timestamps the mapper is applied to: every second of the day whose
\* candidate lies in a snip or within Slack seconds of a snip, of the start of
\* the video or of midnight.

NearSnip(t) ==
    \E k \in 1..NSnips :
        /\ convert_crumbles_to_absolute[k][1] - Slack * CS <= t
        /\ t <= convert_crumbles_to_absolute[k][2] + Slack * CS

SampleSeconds ==
    {sec \in 0..86399 :
        \/ NearSnip(sec * CS - CHAT_OFFSET)
        \/ sec * CS - CHAT_OFFSET \in (0 - Slack * CS)..(Slack * CS)
        \/ sec <= Slack
        \/ sec >= 86399 - Slack}

RawTimestamps == {HMS(sec) : sec \in SampleSeconds}

NoClock == Clock(99, 99, 99, 99)

MapIdle ==
    /\ mpc = "idle"
    /\ ts1 = NoClock
    /\ ts2 = NoClock
    /\ out1 = NoClock
    /\ out2 = NoClock

WrapIdle ==
    /\ wpc = "idle"
    /\ w_line = [author |-> "", timestamp |-> NoClock, quoted_text |-> ""]
    /\ w_msgs = <<>>

FwIdle ==
    /\ fw_pc = "idle"
    /\ fw_seq = <<>>
    /\ fw_n = 0
    /\ fw_i = 0
    /\ fw_result = <<>>
    /\ fw_out = <<>>

NoFile == [exists |-> FALSE, content |-> <<>>]

ProgIdle ==
    /\ talkie = NoFile
    /\ base = NoFile
    /\ out_file = NoFile
    /\ out_file_before = NoFile
    /\ pc = "idle"
    /\ error = "none"
    /\ file_lines = <<>>
    /\ total_messages = <<>>
    /\ windows = <<>>
    /\ final_lines = <<>>
    /\ calls = <<>>

MapInit ==
    /\ WrapIdle
    /\ FwIdle
    /\ ProgIdle
    /\ mpc = "input"
    /\ ts1 \in RawTimestamps
    /\ ts2 \in {d \in RawTimestamps : ClockLeq(ts1, d)}
    /\ out1 = NoClock
    /\ out2 = NoClock

ConvertTimestamps ==
    /\ mpc = "input"
    /\ mpc' = "mapped"
    /\ out1' = convert_message_timestamp_to_subtitle_time(ts1)
    /\ out2' = convert_message_timestamp_to_subtitle_time(ts2)
    /\ UNCHANGED <<ts1, ts2, wrapVars, fwVars, fileVars, progVars>>

MapNext == ConvertTimestamps

SpecMap == MapInit /\ [][MapNext]_vars

----------------------------------------------------------------------------
\* Properties of the mapper, under SpecMap.

InSnip(k, t) ==
    /\ convert_crumbles_to_absolute[k][1] <= t
    /\ t <= convert_crumbles_to_absolute[k][2]

InNoSnip(t) == \A k \in 1..NSnips : ~InSnip(k, t)

\* The total duration of the snips whose absolute end precedes t.
RECURSIVE RemovedBefore(_, _)
RemovedBefore(k, t) ==
    IF k = 0 THEN 0
    ELSE RemovedBefore(k - 1, t)
         + (IF convert_crumbles_to_absolute[k][2] < t THEN SnipDuration(k) ELSE 0)

\* A clock time written to hundredths of a second.
ExactClock(t) ==
    LET sod == (t % DAY) \div CS
    IN  Clock(sod \div 3600, (sod \div 60) % 60, sod % 60, t % CS)

\* C1: the mapper is monotonically non-decreasing: of two raw timestamps
\* t1 <= t2 the output for t1 is not later than the output for t2.
C1_Monotone ==
    mpc = "mapped" => ClockLeq(out1, out2)

\* C5 as stated: a candidate inside a snip, boundaries included, maps to the
\* snip's absoluteStart minus its cumulativeRemoved, to hundredths of a second.
C5_CollapseToHundredths ==
    mpc = "mapped" =>
        \A k \in 1..NSnips :
            InSnip(k, Candidate(ts1)) =>
                out1 = ExactClock(convert_crumbles_to_absolute[k][1]
                                  - convert_crumbles_to_absolute[k][3])

\* C5 as amended: a candidate inside a snip, boundaries included, maps to the
\* snip's absoluteStart minus its cumulativeRemoved (the snip's begin as the
\* snip list writes it) with the fraction of the second dropped and written
\* as ".00".
C5_CollapseToWholeSecond ==
    mpc = "mapped" =>
        \A k \in 1..NSnips :
            InSnip(k, Candidate(ts1)) =>
                out1 = [CRUMBLES_SNIPS[k][1] EXCEPT !.c = 0]

\* A candidate equal to the end boundary of the first snip has collapsed onto
\* 00:05:20.00, and a candidate inside the third snip onto 00:39:01.00.
C5_Witness ==
    /\ mpc = "mapped"
    /\ Candidate(ts1) = convert_crumbles_to_absolute[1][2]
    /\ out1 = Clock(0, 5, 20, 0)
    /\ InSnip(3, Candidate(ts2))
    /\ out2 = Clock(0, 39, 1, 0)

\* C9: a candidate inside no snip is moved back by exactly the total duration
\* of the snips whose absolute end precedes it, the last snip included.
C9_SubtractsEndedSnips ==
    mpc = "mapped" =>
        (InNoSnip(Candidate(ts1)) =>
            out1 = strftime(Candidate(ts1) - RemovedBefore(NSnips, Candidate(ts1))))

----------------------------------------------------------------------------
\* SpecWrap: get_messages_from_line on one record.

RECURSIVE Repeat(_, _)
Repeat(s, n) ==
    IF n <= 0 THEN ""
    ELSE Repeat(s, n \div 2) \o Repeat(s, n \div 2) \o (IF n % 2 = 1 THEN s ELSE "")

\* What a message text is made of: a short word, a space, a word that with
\* "MF: " fills a line but for one column, one more letter, a run of claps
\* that is longer than a line once each clap is two characters, the sentinel,
\* and the delimiter of a name.
Pieces == {"hi", " ", Repeat("x", 33), "x", Repeat(CLAP, 19), SENTINEL, "MF: "}

RECURSIVE TextsOf(_)
TextsOf(n) ==
    IF n = 0 THEN {""}
    ELSE TextsOf(n - 1) \cup {t \o p : t \in TextsOf(n - 1), p \in Pieces}

WrapAuthors == {"MF", "duk", "spaghetti squash"}

WrapInit ==
    /\ MapIdle
    /\ FwIdle
    /\ ProgIdle
    /\ wpc = "input"
    /\ w_line \in [author : WrapAuthors,
                   timestamp : {Clock(4, 8, 20, 0)},
                   quoted_text : TextsOf(MaxPieces)]
    /\ w_msgs = <<>>

GetMessagesFromLine ==
    /\ wpc = "input"
    /\ wpc' = "wrapped"
    /\ w_msgs' = get_messages_from_line(w_line)
    /\ UNCHANGED <<w_line, mapVars, fwVars, fileVars, progVars>>

WrapNext == GetMessagesFromLine

SpecWrap == WrapInit /\ [][WrapNext]_vars

----------------------------------------------------------------------------
\* Properties of the wrapper, under SpecWrap.

COLOR_TAG_OPENING == "{\\c&H"

HasPrefix(s, prefix) ==
    Len(s) >= Len(prefix) /\ SubSeq(s, 1, Len(prefix)) = prefix

\* The text of the k-th message without colour markup and without the
\* continuation indent.
PlainText(author, msgs, k) ==
    LET uncoloured == str_replace(str_replace(msgs[k].text, NAME_COLORS[author], ""),
                                  TEXT_WHITE_RESET, "")
    IN  IF k > 1 /\ HasPrefix(uncoloured, SUBSEQUENT_INDENT)
        THEN StrFrom(uncoloured, Len(SUBSEQUENT_INDENT) + 1)
        ELSE uncoloured

RECURSIVE SkipSpaces(_)
SkipSpaces(s) ==
    IF Len(s) > 0 /\ IsSpace(Char(s, 1)) THEN SkipSpaces(StrFrom(s, 2)) ELSE s

\* original is the lines from the k-th on, in order, with nothing but
\* whitespace between them and after them.
RECURSIVE JoinsTo(_, _, _, _)
JoinsTo(original, author, msgs, k) ==
    IF k > Len(msgs) THEN IsBlank(original)
    ELSE LET here == IF k = 1 THEN original ELSE SkipSpaces(original)
             line == PlainText(author, msgs, k)
         IN  /\ HasPrefix(here, line)
             /\ JoinsTo(StrFrom(here, Len(line) + 1), author, msgs, k + 1)

\* C6: the texts of the messages of a record, without colour markup and
\* continuation indent, join to the original "author: text" but for the
\* whitespace dropped where the text was wrapped.
C6_WrapRoundTrip ==
    wpc = "wrapped" =>
        JoinsTo(w_line.author \o ": " \o w_line.quoted_text, w_line.author, w_msgs, 1)

\* C8: the first message of a record starts with the author's colour, the
\* name, ": " and the white reset, holds the two markup codes once each, and no
\* later message of the record holds colour markup.
C8_FirstLineColoured ==
    wpc = "wrapped" =>
        /\ HasPrefix(w_msgs[1].text,
                     NAME_COLORS[w_line.author] \o w_line.author \o ": "
                         \o TEXT_WHITE_RESET)
        /\ Cardinality(Occurrences(w_msgs[1].text, COLOR_TAG_OPENING)) = 2
        /\ \A k \in 2..Len(w_msgs) :
               Occurrences(w_msgs[k].text, COLOR_TAG_OPENING) = {}

----------------------------------------------------------------------------
\* flat_window(seq, n), a generator: FlatWindowFirst runs it to its first
\* yield, FlatWindowNext from one yield to the next, FlatWindowReturn to its
\* end.

\* s[-n:] and s[k:] for n >= 1 and k >= 0.
LastN(s, n) == IF n >= Len(s) THEN s ELSE SubSeq(s, Len(s) - n + 1, Len(s))
DropFirst(s, k) == SubSeq(s, k + 1, Len(s))

\* The while loop: i groups are in result.  It ends with len(result) >= n, or
\* in an IndexError when seq has no group left.
RECURSIVE fill_window(_, _, _, _)
fill_window(seq, n, result, i) ==
    IF Len(result) >= n THEN [ok |-> TRUE, result |-> result, i |-> i]
    ELSE IF i >= Len(seq) THEN [ok |-> FALSE, result |-> result, i |-> i]
    ELSE fill_window(seq, n, result \o seq[i + 1], i + 1)

\* result[new_additions_length:] + elem
slide_window(result, elem) == DropFirst(result, Len(elem)) \o elem

FlatWindowFirst ==
    /\ fw_pc = "start"
    /\ LET filled == fill_window(fw_seq, fw_n, <<>>, 0)
       IN  IF filled.ok
           THEN /\ fw_result' = LastN(filled.result, fw_n)
                /\ fw_i' = filled.i
                /\ fw_out' = <<<<Len(fw_seq[filled.i]), LastN(filled.result, fw_n)>>>>
                /\ fw_pc' = "yielded"
           ELSE /\ fw_result' = filled.result
                /\ fw_i' = filled.i
                /\ fw_out' = <<>>
                /\ fw_pc' = "IndexError"
    /\ UNCHANGED <<fw_seq, fw_n, mapVars, wrapVars, fileVars, progVars>>

FlatWindowNext ==
    /\ fw_pc = "yielded"
    /\ fw_i < Len(fw_seq)
    /\ LET elem == fw_seq[fw_i + 1]
       IN  /\ fw_result' = slide_window(fw_result, elem)
           /\ fw_out' = Append(fw_out, <<Len(elem), slide_window(fw_result, elem)>>)
    /\ fw_i' = fw_i + 1
    /\ UNCHANGED <<fw_pc, fw_seq, fw_n, mapVars, wrapVars, fileVars, progVars>>

FlatWindowReturn ==
    /\ fw_pc = "yielded"
    /\ fw_i >= Len(fw_seq)
    /\ fw_pc' = "returned"
    /\ UNCHANGED <<fw_seq, fw_n, fw_i, fw_result, fw_out,
                   mapVars, wrapVars, fileVars, progVars>>

\* SpecWindow: flat_window on sequences of groups of numbered lines.
GroupsOf(sizes) == [g \in DOMAIN sizes |-> [j \in 1..sizes[g] |-> <<g, j>>]]

WindowInit ==
    /\ MapIdle
    /\ WrapIdle
    /\ ProgIdle
    /\ fw_pc = "start"
    /\ fw_n \in 1..MaxN
    /\ \E G \in 0..MaxGroups :
           \E sizes \in [1..G -> 1..MaxGroupSize] : fw_seq = GroupsOf(sizes)
    /\ fw_i = 0
    /\ fw_result = <<>>
    /\ fw_out = <<>>

WindowNext ==
    \/ FlatWindowFirst
    \/ FlatWindowNext
    \/ FlatWindowReturn

SpecWindow == WindowInit /\ [][WindowNext]_vars

\* C2: every window flat_window yields holds exactly n lines, whatever the
\* sizes of the groups.
C2_WindowSize ==
    \A k \in 1..Len(fw_out) : Len(fw_out[k][2]) = fw_n

----------------------------------------------------------------------------
\* The program: main, get_output_lines, get_messages_in_file,
\* get_lines_in_file.

CLOSING_TIME == Clock(1, 37, 23, 0)

\* strptime accepts the timestamp.
ValidTimestamp(d) ==
    d.h \in 0..23 /\ d.m \in 0..59 /\ d.s \in 0..59

\* A line of the transcript with its six fields.
Record(author, timestamp, quoted_text) ==
    [fields |-> 6, author |-> author, timestamp |-> timestamp,
     quoted_text |-> quoted_text]

\* The line after the last line break of a file that ends with one.
EmptyLine == [fields |-> 1, author |-> "", timestamp |-> NoClock, quoted_text |-> ""]

\* A text that wraps to LINES_ON_SCREEN lines after "MF: ": one word that
\* fills the first line and the others.
ScreenfulText ==
    Repeat("x", (MAX_LINE_LENGTH - 4)
                + (LINES_ON_SCREEN - 1) * (MAX_LINE_LENGTH - InsaneHackLen))

\* The lines a transcript is made of: a message before the video starts, one
\* in it and one after the closing time, each short, empty (a picture) or a
\* screenful; a message of an author without a colour; a timestamp that is
\* no time; an empty line.
TranscriptLines ==
    {Record("MF", t, x) :
        t \in {Clock(4, 3, 51, 0), Clock(4, 8, 20, 0), Clock(5, 50, 0, 0)},
        x \in {"hi", "", ScreenfulText}}
    \cup {Record("Zed", Clock(4, 8, 20, 0), "hi"),
          Record("MF", Clock(24, 0, 0, 0), "hi"),
          EmptyLine}

RECURSIVE TranscriptsOf(_)
TranscriptsOf(n) ==
    IF n = 0 THEN {<<>>}
    ELSE TranscriptsOf(n - 1)
         \cup {Append(t, l) : t \in TranscriptsOf(n - 1), l \in TranscriptLines}

File(content) == [exists |-> TRUE, content |-> content]

Init ==
    /\ MapIdle
    /\ WrapIdle
    /\ FwIdle
    /\ talkie \in {NoFile} \cup {File(t) : t \in TranscriptsOf(MaxRecords)}
    /\ base \in {NoFile, File(<<"header">>)}
    /\ out_file \in {NoFile, File(<<"old subtitles">>)}
    /\ out_file_before = out_file
    /\ pc = "get_lines_in_file"
    /\ error = "none"
    /\ file_lines = <<>>
    /\ total_messages = <<>>
    /\ windows = <<>>
    /\ final_lines = <<>>
    /\ calls = <<>>

Raise(exception) ==
    /\ pc' = "aborted"
    /\ error' = exception

\* get_lines_in_file: Path("talkie_v2.csv").read_text()
GetLinesInFile ==
    /\ pc = "get_lines_in_file"
    /\ IF talkie.exists
       THEN /\ file_lines' = talkie.content
            /\ pc' = "get_messages_in_file"
            /\ UNCHANGED error
       ELSE /\ Raise("FileNotFoundError")
            /\ UNCHANGED file_lines
    /\ UNCHANGED <<total_messages, windows, final_lines, calls,
                   mapVars, wrapVars, fwVars, fileVars>>

\* One turn of the loop of get_messages_in_file, on the first line left.
GetMessagesInFile ==
    /\ pc = "get_messages_in_file"
    /\ file_lines # <<>>
    /\ LET line == Head(file_lines)
       IN  IF line.fields # 6
           THEN Raise("ValueError") /\ UNCHANGED total_messages
           ELSE IF line.quoted_text = ""
           THEN UNCHANGED <<pc, error, total_messages>>
           ELSE IF ~ValidTimestamp(line.timestamp)
           THEN Raise("ValueError") /\ UNCHANGED total_messages
           ELSE IF line.author \notin DOMAIN NAME_COLORS
           THEN Raise("KeyError") /\ UNCHANGED total_messages
           ELSE /\ total_messages' = Append(total_messages, get_messages_from_line(line))
                /\ UNCHANGED <<pc, error>>
    /\ file_lines' = Tail(file_lines)
    /\ UNCHANGED <<windows, final_lines, calls, mapVars, wrapVars, fwVars, fileVars>>

\* get_output_lines pads the messages and calls flat_window.
padding == [k \in 1..LINES_ON_SCREEN |-> <<Message(Clock(0, 0, 0, 0), " ")>>]

PadMessages ==
    /\ pc = "get_messages_in_file"
    /\ file_lines = <<>>
    /\ pc' = "flat_window"
    /\ fw_pc' = "start"
    /\ fw_seq' = padding \o total_messages
    /\ fw_n' = LINES_ON_SCREEN
    /\ fw_i' = 0
    /\ fw_result' = <<>>
    /\ fw_out' = <<>>
    /\ UNCHANGED <<error, file_lines, total_messages, windows, final_lines, calls,
                   mapVars, wrapVars, fileVars>>

\* windows = list(flat_window(...))
ListWindows ==
    /\ pc = "flat_window"
    /\ fw_pc \in {"returned", "IndexError"}
    /\ IF fw_pc = "returned"
       THEN /\ windows' = fw_out
            /\ pc' = "cues"
            /\ UNCHANGED error
       ELSE /\ Raise("IndexError")
            /\ UNCHANGED windows
    /\ UNCHANGED <<file_lines, total_messages, final_lines, calls,
                   mapVars, wrapVars, fwVars, fileVars>>

RECURSIVE join_texts(_, _)
join_texts(sep, messages) ==
    IF messages = <<>> THEN ""
    ELSE IF Len(messages) = 1 THEN messages[1].text
    ELSE messages[1].text \o sep \o join_texts(sep, Tail(messages))

\* A cue is the text after the line beginning, with the times of the line
\* beginning and the window it was made for.
format_all_but_bottom(messages, begin_time, end_time, i) ==
    [window |-> i, begin_time |-> begin_time, end_time |-> end_time,
     text |-> join_texts("\\N", messages)]

format_faded_messages(messages, begin_time, end_time, i) ==
    [k \in 1..Len(messages) |->
        LET index_from_bottom == Len(messages) - (k - 1)
            blank_lines == IF LINES_ON_SCREEN - index_from_bottom > 0
                           THEN LINES_ON_SCREEN - index_from_bottom ELSE 0
        IN  [window |-> i, begin_time |-> begin_time, end_time |-> end_time,
             text |-> "{\\fad(1000,0)}" \o Repeat(" \\N", blank_lines)
                          \o messages[k].text]]

Last(s) == s[Len(s)]

\* The window the loop of get_output_lines is at: one more than the last
\* window it made cues for.
CurrentWindow ==
    IF final_lines = <<>> THEN 1 ELSE Last(final_lines).window + 1

\* EndTime with a slip: the time of the newest line of the window itself (the
\* assignment the source has commented out).
EndTime_OwnTime(i) ==
    IF i + 1 <= Len(windows)
    THEN Last(windows[i][2]).sent_time
    ELSE CLOSING_TIME

\* end_time of the i-th window: the time of the newest line of the next
\* window, or the closing time where there is no next window.
EndTime(i) ==
    IF i + 1 <= Len(windows)
    THEN Last(windows[i + 1][2]).sent_time
    ELSE CLOSING_TIME

\* message_chunk[:-length] and message_chunk[-length:], length >= 1
AllButBottom(message_chunk, length) ==
    SubSeq(message_chunk, 1, Len(message_chunk) - length)
Bottom(message_chunk, length) == LastN(message_chunk, length)

\* One turn of the loop of get_output_lines.
EmitCues ==
    /\ pc = "cues"
    /\ CurrentWindow <= Len(windows)
    /\ LET i == CurrentWindow
           length == windows[i][1]
           message_chunk == windows[i][2]
           begin_time == Last(message_chunk).sent_time
           end_time == EndTime(i)
       IN  /\ final_lines' =
                  Append(final_lines,
                         format_all_but_bottom(AllButBottom(message_chunk, length),
                                               begin_time, end_time, i))
                  \o format_faded_messages(Bottom(message_chunk, length),
                                           begin_time, end_time, i)
           /\ calls' = calls \o
                  << [fn |-> "format_all_but_bottom", window |-> i,
                      n |-> Len(AllButBottom(message_chunk, length))],
                     [fn |-> "format_faded_messages", window |-> i,
                      n |-> Len(Bottom(message_chunk, length))] >>
    /\ UNCHANGED <<pc, error, file_lines, total_messages, windows,
                   mapVars, wrapVars, fwVars, fileVars>>

\* get_output_lines returns and main opens subtitles_out.ass for writing.
OpenOut ==
    /\ pc = "cues"
    /\ CurrentWindow > Len(windows)
    /\ out_file' = File(<<>>)
    /\ pc' = "write_base"
    /\ UNCHANGED <<error, file_lines, total_messages, windows, final_lines, calls,
                   talkie, base, out_file_before, mapVars, wrapVars, fwVars>>

\* out_file.write(base.read_text()); an exception closes the file.
WriteBase ==
    /\ pc = "write_base"
    /\ IF base.exists
       THEN /\ out_file' = File(out_file.content \o base.content)
            /\ pc' = "write_lines"
            /\ UNCHANGED error
       ELSE /\ Raise("FileNotFoundError")
            /\ UNCHANGED out_file
    /\ UNCHANGED <<file_lines, total_messages, windows, final_lines, calls,
                   talkie, base, out_file_before, mapVars, wrapVars, fwVars>>

\* out_file.write("\n".join(lines))
WriteLines ==
    /\ pc = "write_lines"
    /\ out_file' = File(out_file.content \o <<final_lines>>)
    /\ pc' = "print"
    /\ UNCHANGED <<error, file_lines, total_messages, windows, final_lines, calls,
                   talkie, base, out_file_before, mapVars, wrapVars, fwVars>>

PrintDone ==
    /\ pc = "print"
    /\ pc' = "done"
    /\ UNCHANGED <<error, file_lines, total_messages, windows, final_lines, calls,
                   mapVars, wrapVars, fwVars, fileVars>>

Next ==
    \/ GetLinesInFile
    \/ GetMessagesInFile
    \/ PadMessages
    \/ FlatWindowFirst
    \/ FlatWindowNext
    \/ FlatWindowReturn
    \/ ListWindows
    \/ EmitCues
    \/ OpenOut
    \/ WriteBase
    \/ WriteLines
    \/ PrintDone

Spec == Init /\ [][Next]_vars

----------------------------------------------------------------------------
\* Properties of the program, under Spec.

CuesOf(i) == {k \in 1..Len(final_lines) : final_lines[k].window = i}

RawTimestampsSorted ==
    /\ talkie.exists
    /\ \A k \in 1..Len(talkie.content) :
           talkie.content[k].fields = 6 /\ ValidTimestamp(talkie.content[k].timestamp)
    /\ \A k \in 1..Len(talkie.content), j \in 1..Len(talkie.content) :
           k <= j => ClockLeq(talkie.content[k].timestamp, talkie.content[j].timestamp)

\* C4: for a transcript whose raw timestamps never decrease, the begin times
\* of successive cues never decrease and every cue begins no later than it
\* ends.
C4_CueTimesNonDecreasing ==
    RawTimestampsSorted =>
        /\ \A k \in 1..Len(final_lines), j \in 1..Len(final_lines) :
               k <= j => ClockLeq(final_lines[k].begin_time, final_lines[j].begin_time)
        /\ \A k \in 1..Len(final_lines) :
               ClockLeq(final_lines[k].begin_time, final_lines[k].end_time)

\* C7: a run that ends in an error leaves subtitles_out.ass as it found it,
\* neither created nor truncated.
C7_NoPartialOutput ==
    pc = "aborted" => out_file = out_file_before

\* C10: no cue formatter is called without lines: for a group of k lines
\* format_all_but_bottom gets the screenHeight - k oldest lines of the window
\* and format_faded_messages the k newest.
C10_FormattersGetLines ==
    \A c \in 1..Len(calls) :
        LET k == windows[calls[c].window][1]
        IN  /\ calls[c].n >= 1
            /\ calls[c].fn = "format_all_but_bottom" => calls[c].n = LINES_ON_SCREEN - k
            /\ calls[c].fn = "format_faded_messages" => calls[c].n = k

====
